---- MODULE Spec2Model ----
(***************************************************************************)
(* A model of src/rnn-q5.py: the RNN object (parameter arrays U, V, W, the *)
(* accumulators deltaU, deltaV, deltaW), its gradient accumulation         *)
(* methods, and the training loops train / train_np.                       *)
(*                                                                         *)
(* Numbers are kept symbolic.  A sequence x is represented by its length   *)
(* (the token values only select one-hot columns).  An accumulator is the  *)
(* sequence of the outer products added to it since it was last zeroed,    *)
(* in the order of the += statements; a parameter array is the sequence    *)
(* of the scaled accumulators added to its initial random value.  Array    *)
(* rows are addressed with Python's indexing rule, so a negative index     *)
(* wraps around and an index outside the array raises IndexError.          *)
(***************************************************************************)
EXTENDS Integers, Sequences, FiniteSets

VARIABLES
    rnn,        \* the RNN object: references U, V, W into heap, the accumulators, the heap
    trace,      \* SpecOps: the (x, y, s) of the latest predict call made by the caller
    last,       \* the latest method call on the object
    calls,      \* SpecOps: number of method calls made
    exc,        \* exception propagated by the latest call ("none" if it returned)
    ret,        \* value returned by the latest call
    pc,         \* position in train / train_np
    args,       \* the arguments of the running train / train_np call
    epoch, i, permutation, learning_rate,
    prev_loss, min_change_count, best_loss, best_epoch, best_acc,
    bestU, bestV, bestW,
    evals,      \* history: every dev-set evaluation, with the live parameter values measured
    applied,    \* history: the apply_deltas calls of the current epoch
    epochsRun   \* history: number of epochs whose dev loss was evaluated

vars == <<rnn, trace, last, calls, exc, ret, pc, args, epoch, i, permutation,
          learning_rate, prev_loss, min_change_count, best_loss, best_epoch,
          best_acc, bestU, bestV, bestW, evals, applied, epochsRun>>

trainVars == <<pc, args, epoch, i, permutation, learning_rate, prev_loss,
               min_change_count, best_loss, best_epoch, best_acc,
               bestU, bestV, bestW, evals, applied, epochsRun>>

-----------------------------------------------------------------------------
(* Bounds *)

\* longest input sequence passed to predict / the acc_deltas methods
MaxLen == 3
\* largest BPTT depth passed as steps
MaxSteps == 3
\* number of direct method calls in a run of SpecOps
MaxCalls == 3
\* dev losses are drawn from 0..MaxLoss
MaxLoss == 1
\* largest training set, len(X)
MaxN == 3
\* largest batch_size argument
MaxBatch == 3
\* largest epochs argument
MaxEpochs == 4

\* the largest number of epochs in a call of SpecLong (the loop can break
\* before its last epoch only from 5 epochs on)
MaxLong == 5

Min2(a, b) == IF a <= b THEN a ELSE b

Abs(a) == IF a < 0 THEN 0 - a ELSE a

-----------------------------------------------------------------------------
(* numpy indexing *)

\* a[idx] is defined for -size <= idx < size
InBounds(idx, size) == (0 - size) <= idx /\ idx < size

\* the row a[idx] addresses: negative indices count from the end
PyIndex(idx, size) == IF idx >= 0 THEN idx ELSE idx + size

-----------------------------------------------------------------------------
(* The RNN object *)

\* RNN.__init__: three fresh random arrays (heap cells 1, 2, 3, each the
\* empty update history) and three zero accumulators
NewRNN ==
    [ U |-> 1, V |-> 2, W |-> 3,
      deltaU |-> <<>>, deltaV |-> <<>>, deltaW |-> <<>>,
      heap |-> << <<>>, <<>>, <<>> >> ]

\* the current value of a parameter array of object r
Val(r, ref) == r.heap[ref]

\* the values of the live parameters self.U, self.V, self.W
Params(r) == [U |-> Val(r, r.U), V |-> Val(r, r.V), W |-> Val(r, r.W)]

\* a frame: the object during a call, with the exception raised so far
Enter(r) == [rnn |-> r, exc |-> "none"]

\* array += learning_rate * delta, in place; adding a zero matrix changes nothing
AddScaled(val, lr, delta) ==
    IF delta = <<>> THEN val ELSE Append(val, [lr |-> lr, terms |-> delta])

\* mutant: the accumulators are not reset after the update
apply_deltas_keep(r, lr) ==
    LET h1 == [r.heap EXCEPT ![r.U] = AddScaled(@, lr, r.deltaU)]
        h2 == [h1 EXCEPT ![r.W] = AddScaled(@, lr, r.deltaW)]
        h3 == [h2 EXCEPT ![r.V] = AddScaled(@, lr, r.deltaV)]
    IN  [r EXCEPT !.heap = h3, !.deltaU = <<>>, !.deltaW = <<>>]

\* RNN.apply_deltas
apply_deltas(r, lr) ==
    LET h1 == [r.heap EXCEPT ![r.U] = AddScaled(@, lr, r.deltaU)]
        h2 == [h1 EXCEPT ![r.W] = AddScaled(@, lr, r.deltaW)]
        h3 == [h2 EXCEPT ![r.V] = AddScaled(@, lr, r.deltaV)]
    IN  [r EXCEPT !.heap = h3, !.deltaU = <<>>, !.deltaV = <<>>, !.deltaW = <<>>]

\* delta /= k, in place: every pending product is divided by k
Scale(delta, k) == [j \in 1..Len(delta) |-> [delta[j] EXCEPT !.div = @ * k]]

\* RNN.predict: s has len(x)+1 rows, rows 0..len(x)-1 are written in order,
\* each from the row before it (row -1 for t = 0); the last row stays zero
predict(r, x) ==
    [ x |-> x,
      y |-> [t \in 1..x |-> [t |-> t - 1]],
      s |-> [t \in 1..(x + 1) |->
                IF t <= x THEN [zero |-> FALSE, prev |-> PyIndex(t - 2, x + 1)]
                          ELSE [zero |-> TRUE, prev |-> 0 - 1]] ]

-----------------------------------------------------------------------------
(* Gradient accumulation *)

\* delta_out = make_onehot(d[..]) - y[yi]
ErrOut(yi, y) == [out |-> PyIndex(yi, Len(y)), gates |-> <<>>]

\* e' = (M.T . e) * s[si] * (1 - s[si])
Gate(e, si, s) == [e EXCEPT !.gates = Append(@, PyIndex(si, Len(s)))]

\* a read a[idx]: raises IndexError outside the array
Check(c, idx, size) ==
    IF c.exc # "none" \/ InBounds(idx, size) THEN c
    ELSE [c EXCEPT !.exc = "IndexError"]

\* mutant: the product is also added straight into the parameter array U
Acc_direct(c, field, e, idx, size) ==
    IF c.exc # "none" THEN c
    ELSE IF ~InBounds(idx, size) THEN [c EXCEPT !.exc = "IndexError"]
    ELSE LET term == [err |-> e, idx |-> idx, row |-> PyIndex(idx, size), div |-> 1]
         IN  [c EXCEPT !.rnn[field] = Append(@, term),
                       !.rnn.heap[c.rnn.U] = Append(@, [lr |-> <<1, 1>>, terms |-> <<term>>])]

\* self.<field> += np.outer(e, a[idx]) where a has `size` rows
Acc(c, field, e, idx, size) ==
    IF c.exc # "none" THEN c
    ELSE IF ~InBounds(idx, size) THEN [c EXCEPT !.exc = "IndexError"]
    ELSE [c EXCEPT !.rnn[field] =
            Append(@, [err |-> e, idx |-> idx, row |-> PyIndex(idx, size), div |-> 1])]

\* mutant: deltaU is accumulated from s[t] instead of s[t-1]
acc_deltas_step_same_row(c, x, y, s, t) ==
    LET delta_out == ErrOut(t, y)
        delta_in  == Gate(delta_out, t, s)
        c1 == Acc(Check(Check(c, t, Len(y)), t, Len(s)), "deltaW", delta_out, t, Len(s))
        c2 == Acc(c1, "deltaV", delta_in, t, x)
    IN  Acc(c2, "deltaU", delta_in, t, Len(s))

\* the body of the loop of acc_deltas for one t
acc_deltas_step(c, x, y, s, t) ==
    LET delta_out == ErrOut(t, y)
        delta_in  == Gate(delta_out, t, s)
        c1 == Acc(Check(Check(c, t, Len(y)), t, Len(s)), "deltaW", delta_out, t, Len(s))
        c2 == Acc(c1, "deltaV", delta_in, t, x)
    IN  Acc(c2, "deltaU", delta_in, t - 1, Len(s))

RECURSIVE acc_deltas_from(_, _, _, _, _)
\* for t in reversed(range(len(x))), from t downward
acc_deltas_from(c, x, y, s, t) ==
    IF t < 0 THEN c
    ELSE acc_deltas_from(acc_deltas_step(c, x, y, s, t), x, y, s, t - 1)

\* RNN.acc_deltas
acc_deltas(c, x, y, s) == acc_deltas_from(c, x, y, s, x - 1)

\* RNN.acc_deltas_np
acc_deltas_np(c, x, y, s) ==
    LET delta_out == ErrOut(0 - 1, y)
        delta_in  == Gate(delta_out, 0 - 2, s)
        c0 == Check(Check(c, 0 - 1, Len(y)), 0 - 2, Len(s))
        c1 == Acc(c0, "deltaW", delta_out, 0 - 2, Len(s))
        c2 == Acc(c1, "deltaV", delta_in, 0 - 1, x)
    IN  Acc(c2, "deltaU", delta_in, 0 - 3, Len(s))

\* mutant: steps is left as the caller passed it
Truncate_none(t, steps) == steps

\* steps = min([t, steps])
Truncate(t, steps) == Min2(t, steps)

RECURSIVE bptt_unroll(_, _, _, _, _, _, _)
\* for i in range(1, steps+1), from i upward, with delta_in_t_tau = e
bptt_unroll(c, x, s, t, e, k, steps) ==
    IF k > steps THEN c
    ELSE LET e1 == Gate(e, t - k, s)
             c0 == Check(c, t - k, Len(s))
             c1 == Acc(c0, "deltaV", e1, t - k, x)
             c2 == Acc(c1, "deltaU", e1, t - k - 1, Len(s))
         IN  bptt_unroll(c2, x, s, t, e1, k + 1, steps)

\* the statements of acc_deltas_bptt / acc_deltas_bptt_np for one t, with
\* steps already truncated
bptt_step(c, x, y, s, t, steps) ==
    LET delta_out == ErrOut(t, y)
        delta_in  == Gate(delta_out, t, s)
        c0 == Check(Check(c, t, Len(y)), t, Len(s))
        c1 == bptt_unroll(c0, x, s, t, delta_in, 1, steps)
        c2 == Acc(c1, "deltaW", delta_out, t, Len(s))
        c3 == Acc(c2, "deltaV", delta_in, t, x)
    IN  Acc(c3, "deltaU", delta_in, t - 1, Len(s))

RECURSIVE acc_deltas_bptt_from(_, _, _, _, _, _)
\* for t in reversed(range(len(x))), from t downward; the variable steps is
\* overwritten in each iteration and carried into the next
acc_deltas_bptt_from(c, x, y, s, t, steps) ==
    IF t < 0 THEN c
    ELSE LET st == Truncate(t, steps)
         IN  acc_deltas_bptt_from(bptt_step(c, x, y, s, t, st), x, y, s, t - 1, st)

\* RNN.acc_deltas_bptt
acc_deltas_bptt(c, x, y, s, steps) == acc_deltas_bptt_from(c, x, y, s, x - 1, steps)

\* RNN.acc_deltas_bptt_np
acc_deltas_bptt_np(c, x, y, s, steps) ==
    LET t == x - 1
    IN  bptt_step(c, x, y, s, t, Truncate(t, steps))

-----------------------------------------------------------------------------
(* Loss and accuracy evaluators *)

\* dev losses (cross entropies of rnnmath.softmax outputs) are data dependent
Losses == 0..MaxLoss

\* RNN.compute_loss, compute_loss_np, compute_acc_np, compare_num_pred: each
\* runs predict(x) and reads y; v is the value computed from y.  The object
\* is returned as it was.
evaluate(r, x, v) ==
    LET tr == predict(r, x)
    IN  [rnn |-> r, y |-> tr.y, value |-> v]

-----------------------------------------------------------------------------
(* State after construction *)

NoTrace == [x |-> 0, y |-> <<>>, s |-> <<>>]

Call(op, x, steps, lr) == [op |-> op, x |-> x, steps |-> steps, lr |-> lr]

Init ==
    /\ rnn = NewRNN
    /\ trace = NoTrace
    /\ last = Call("__init__", 0, 0, <<0, 1>>)
    /\ calls = 0
    /\ exc = "none"
    /\ ret = 0
    /\ pc = "idle"
    /\ args = [np |-> FALSE, X |-> <<>>, X_dev |-> <<>>, epochs |-> 0, learning_rate |-> 0,
               anneal |-> 0, back_steps |-> 0, batch_size |-> 1, min_change |-> 0]
    /\ epoch = 0
    /\ i = 0
    /\ permutation = <<>>
    /\ learning_rate = <<0, 1>>
    /\ prev_loss = 0
    /\ min_change_count = 0
    /\ best_loss = 0
    /\ best_epoch = 0
    /\ best_acc = "unbound"
    /\ bestU = 0
    /\ bestV = 0
    /\ bestW = 0
    /\ evals = <<>>
    /\ applied = <<>>
    /\ epochsRun = 0

-----------------------------------------------------------------------------
(* SpecOps: a caller invoking the methods of one RNN object directly *)

\* learning rates passed to apply_deltas, as <<numerator, denominator>>
Rates == {<<1, 1>>, <<1, 2>>}

\* y, s = rnn.predict(x)
OpPredict ==
    /\ calls < MaxCalls
    /\ \E x \in 1..MaxLen :
        /\ trace' = predict(rnn, x)
        /\ last' = Call("predict", x, 0, <<0, 1>>)
    /\ calls' = calls + 1
    /\ exc' = "none"
    /\ UNCHANGED <<rnn, ret>>
    /\ UNCHANGED trainVars

\* the effect of one accumulation call on the caller's variables
OpDone(op, c, steps) ==
    /\ rnn' = c.rnn
    /\ exc' = c.exc
    /\ last' = Call(op, trace.x, steps, <<0, 1>>)
    /\ calls' = calls + 1
    /\ UNCHANGED <<trace, ret>>
    /\ UNCHANGED trainVars

\* rnn.acc_deltas(x, d, y, s)
OpAccDeltas ==
    /\ calls < MaxCalls
    /\ trace # NoTrace
    /\ OpDone("acc_deltas", acc_deltas(Enter(rnn), trace.x, trace.y, trace.s), 0)

\* rnn.acc_deltas_np(x, d, y, s)
OpAccDeltasNp ==
    /\ calls < MaxCalls
    /\ trace # NoTrace
    /\ OpDone("acc_deltas_np", acc_deltas_np(Enter(rnn), trace.x, trace.y, trace.s), 0)

\* rnn.acc_deltas_bptt(x, d, y, s, steps)
OpAccDeltasBptt ==
    /\ calls < MaxCalls
    /\ trace # NoTrace
    /\ \E steps \in 0..MaxSteps :
        OpDone("acc_deltas_bptt",
               acc_deltas_bptt(Enter(rnn), trace.x, trace.y, trace.s, steps), steps)

\* rnn.acc_deltas_bptt_np(x, d, y, s, steps)
OpAccDeltasBpttNp ==
    /\ calls < MaxCalls
    /\ trace # NoTrace
    /\ \E steps \in 0..MaxSteps :
        OpDone("acc_deltas_bptt_np",
               acc_deltas_bptt_np(Enter(rnn), trace.x, trace.y, trace.s, steps), steps)

\* rnn.apply_deltas(learning_rate)
OpApplyDeltas ==
    /\ calls < MaxCalls
    /\ \E lr \in Rates :
        /\ rnn' = apply_deltas(rnn, lr)
        /\ last' = Call("apply_deltas", 0, 0, lr)
    /\ calls' = calls + 1
    /\ exc' = "none"
    /\ UNCHANGED <<trace, ret>>
    /\ UNCHANGED trainVars

\* rnn.compute_loss(x, d) and the other evaluators
OpEvaluate ==
    /\ calls < MaxCalls
    /\ \E x \in 1..MaxLen, v \in Losses :
        LET e == evaluate(rnn, x, v)
        IN  /\ rnn' = e.rnn
            /\ ret' = e.value
            /\ last' = Call("evaluate", x, 0, <<0, 1>>)
    /\ calls' = calls + 1
    /\ exc' = "none"
    /\ UNCHANGED trace
    /\ UNCHANGED trainVars

NextOps ==
    \/ OpPredict
    \/ OpAccDeltas
    \/ OpAccDeltasNp
    \/ OpAccDeltasBptt
    \/ OpAccDeltasBpttNp
    \/ OpApplyDeltas
    \/ OpEvaluate

SpecOps == Init /\ [][NextOps]_vars

-----------------------------------------------------------------------------
(* Spec: one call of train or train_np *)

\* a training or dev set of n sentences, all of length l
Corpus(n, l) == [p \in 1..n |-> l]

\* min_change arguments: 1 (two integer losses differ by less only when equal)
\* and one larger than any possible change
MinChanges == {1, MaxLoss + 1}

\* anneal arguments
Anneals == {0, 5}

\* np.random.permutation(range(n)): of the n! outcomes, the ascending and the
\* descending order, as sequences over 0..n-1
Shuffles(n) == {[j \in 1..n |-> j - 1], [j \in 1..n |-> n - j]}

\* learning_rate = a0/((epoch+0.0+anneal)/anneal) if anneal > 0 else a0,
\* as <<numerator, denominator>>
AnnealedRate(a0, ep, anneal) ==
    IF anneal > 0 THEN <<a0 * anneal, ep + anneal>> ELSE <<a0, 1>>

\* the dev-set evaluation (with the values of the live parameters it measured)
Measured(l, r) == [loss |-> l, params |-> Params(r)]

\* train / train_np up to the start of the epoch loop
TrainStart(np, X, X_dev, epochs, anneal, back_steps, batch_size, min_change) ==
    /\ args' = [np |-> np, X |-> X, X_dev |-> X_dev, epochs |-> epochs,
                learning_rate |-> 1, anneal |-> anneal, back_steps |-> back_steps,
                batch_size |-> batch_size, min_change |-> min_change]
    /\ IF Len(X_dev) = 0
       THEN \* loss_sum = 0: initial_loss = 0 / 0
            /\ exc' = "ZeroDivisionError"
            /\ pc' = "raised"
            /\ UNCHANGED <<prev_loss, min_change_count, best_loss, bestU, bestV,
                           bestW, best_epoch, evals, ret, calls, last>>
       ELSE \E initial_loss \in Losses :
            LET e == evaluate(rnn, X_dev[1], initial_loss)
            IN  /\ prev_loss' = e.value
                /\ min_change_count' = 0 - 1
                /\ best_loss' = e.value
                /\ bestU' = rnn.U
                /\ bestV' = rnn.V
                /\ bestW' = rnn.W
                /\ best_epoch' = 0
                /\ evals' = <<Measured(e.value, e.rnn)>>
                /\ calls' = calls + Len(X_dev)
                /\ last' = Call("evaluate", 0, 0, <<0, 1>>)
                /\ exc' = "none"
                /\ pc' = "loop"
                /\ UNCHANGED ret
    /\ epoch' = 0
    /\ UNCHANGED <<rnn, trace, i, permutation, learning_rate, best_acc, applied, epochsRun>>

\* Spec: calls with up to MaxEpochs epochs on training sets of one or two sentences
TrainCall ==
    /\ pc = "idle"
    /\ \E np \in BOOLEAN, n \in 1..2, l \in 1..2, n_dev \in 0..1, epochs \in 0..MaxEpochs,
          anneal \in Anneals, back_steps \in 0..1, batch_size \in 1..2,
          min_change \in MinChanges :
        TrainStart(np, Corpus(n, l), Corpus(n_dev, l), epochs, anneal, back_steps,
                   batch_size, min_change)

\* SpecBatch: calls with one or two epochs, on training sets of up to MaxN
\* sentences with batch sizes up to MaxBatch
TrainCallBatch ==
    /\ pc = "idle"
    /\ \E np \in BOOLEAN, n \in 1..MaxN, epochs \in 1..2, back_steps \in 0..1,
          batch_size \in 1..MaxBatch :
        TrainStart(np, Corpus(n, 2), Corpus(1, 2), epochs, 5, back_steps, batch_size, 1)

\* SpecLong: calls of train with up to MaxLong epochs, on training sets of
\* one or two sentences updated after each instance
TrainCallLong ==
    /\ pc = "idle"
    /\ \E n \in 1..2, epochs \in 0..MaxLong, min_change \in MinChanges :
        TrainStart(FALSE, Corpus(n, 2), Corpus(1, 2), epochs, 0, 0, 1, min_change)

\* for epoch in range(epochs): the head of an iteration, up to the instance loop
EpochBegin ==
    /\ pc = "loop"
    /\ epoch < args.epochs
    /\ learning_rate' = AnnealedRate(args.learning_rate, epoch, args.anneal)
    /\ permutation' \in Shuffles(Len(args.X))
    /\ i' = 0
    /\ applied' = <<>>
    /\ pc' = IF Len(args.X) > 0 THEN "predict" ELSE "rest"
    /\ UNCHANGED <<rnn, trace, last, calls, exc, ret, args, epoch, prev_loss,
                   min_change_count, best_loss, best_epoch, best_acc, bestU, bestV,
                   bestW, evals, epochsRun>>

\* range(epochs) is exhausted
LoopExit ==
    /\ pc = "loop"
    /\ epoch >= args.epochs
    /\ pc' = "finish"
    /\ UNCHANGED <<rnn, trace, last, calls, exc, ret, args, epoch, i, permutation,
                   learning_rate, prev_loss, min_change_count, best_loss, best_epoch,
                   best_acc, bestU, bestV, bestW, evals, applied, epochsRun>>

\* p = permutation[i]; y_p, s_p = self.predict(X[p])
Predict ==
    /\ pc = "predict"
    /\ LET p == permutation[i + 1]
           x_p == args.X[p + 1]
       IN  /\ trace' = predict(rnn, x_p)
           /\ last' = Call("predict", x_p, 0, <<0, 1>>)
    /\ calls' = calls + 1
    /\ pc' = "acc"
    /\ UNCHANGED <<rnn, exc, ret, args, epoch, i, permutation, learning_rate, prev_loss,
                   min_change_count, best_loss, best_epoch, best_acc, bestU, bestV,
                   bestW, evals, applied, epochsRun>>

\* the accumulation method train / train_np selects
Accumulator(np, back_steps) ==
    IF back_steps = 0
    THEN (IF np THEN "acc_deltas_np" ELSE "acc_deltas")
    ELSE (IF np THEN "acc_deltas_bptt_np" ELSE "acc_deltas_bptt")

\* the call of the selected accumulation method
Accumulated(op, r, tr, back_steps) ==
    CASE op = "acc_deltas" -> acc_deltas(Enter(r), tr.x, tr.y, tr.s)
      [] op = "acc_deltas_np" -> acc_deltas_np(Enter(r), tr.x, tr.y, tr.s)
      [] op = "acc_deltas_bptt" -> acc_deltas_bptt(Enter(r), tr.x, tr.y, tr.s, back_steps)
      [] op = "acc_deltas_bptt_np" -> acc_deltas_bptt_np(Enter(r), tr.x, tr.y, tr.s, back_steps)

\* if back_steps == 0: self.acc_deltas(...) else: self.acc_deltas_bptt(...)
Accumulate ==
    /\ pc = "acc"
    /\ LET op == Accumulator(args.np, args.back_steps)
           c == Accumulated(op, rnn, trace, args.back_steps)
       IN  /\ rnn' = c.rnn
           /\ exc' = c.exc
           /\ last' = Call(op, trace.x, args.back_steps, <<0, 1>>)
           /\ pc' = IF c.exc = "none" THEN "batch" ELSE "raised"
    /\ calls' = calls + 1
    /\ UNCHANGED <<trace, ret, args, epoch, i, permutation, learning_rate, prev_loss,
                   min_change_count, best_loss, best_epoch, best_acc, bestU, bestV,
                   bestW, evals, applied, epochsRun>>

\* the object with its three accumulators divided by k
Divided(r, k) ==
    [r EXCEPT !.deltaU = Scale(@, k), !.deltaV = Scale(@, k), !.deltaW = Scale(@, k)]

\* mutant: an update is due when a batch of batch_size instances is complete
BatchDue_full(pos, batch_size) == (pos + 1) % batch_size = 0

\* if i % batch_size == 0
BatchDue(pos, batch_size) == pos % batch_size = 0

\* the end of the instance loop's body: the update when it is due, then i += 1
BatchUpdate ==
    /\ pc = "batch"
    /\ IF BatchDue(i, args.batch_size)
       THEN /\ rnn' = apply_deltas(Divided(rnn, args.batch_size), learning_rate)
            /\ last' = Call("apply_deltas", 0, 0, learning_rate)
            /\ calls' = calls + 1
            /\ applied' = Append(applied, [after |-> i, seen |-> i + 1, div |-> args.batch_size])
       ELSE UNCHANGED <<rnn, last, calls, applied>>
    /\ i' = i + 1
    /\ pc' = IF i + 1 < Len(args.X) THEN "predict" ELSE "rest"
    /\ UNCHANGED <<trace, exc, ret, args, epoch, permutation, learning_rate, prev_loss,
                   min_change_count, best_loss, best_epoch, best_acc, bestU, bestV,
                   bestW, evals, epochsRun>>

\* after the instance loop: if len(X) % batch_size > 0, one more update.
\* permutation, y_p and s_p are not read again before they are reassigned.
Remainder ==
    /\ pc = "rest"
    /\ LET mod == Len(args.X) % args.batch_size
       IN  IF mod > 0
           THEN /\ rnn' = apply_deltas(Divided(rnn, mod), learning_rate)
                /\ last' = Call("apply_deltas", 0, 0, learning_rate)
                /\ calls' = calls + 1
                /\ applied' = Append(applied, [after |-> Len(args.X) - 1,
                                               seen |-> Len(args.X), div |-> mod])
           ELSE UNCHANGED <<rnn, last, calls, applied>>
    /\ permutation' = <<>>
    /\ trace' = NoTrace
    /\ pc' = "eval"
    /\ UNCHANGED <<exc, ret, args, epoch, i, learning_rate, prev_loss,
                   min_change_count, best_loss, best_epoch, best_acc, bestU, bestV,
                   bestW, evals, epochsRun>>

\* bestU, bestV, bestW = self.U.copy(), self.V.copy(), self.W.copy(): three
\* new arrays holding the current values
Copied(r) == [r EXCEPT !.heap = @ \o <<Val(r, r.U), Val(r, r.V), Val(r, r.W)>>]

\* mutant: the loop breaks as soon as the count reaches 1
Converged_early(count) == count >= 1

\* if min_change_count > 2: break
Converged(count) == count > 2

\* mutant: a tie replaces the best loss
Improved_tie(loss, best) == loss <= best

\* if loss < best_loss
Improved(loss, best) == loss < best

\* the rest of an epoch: the dev loss, the best snapshot, the convergence test.
\* (train_np also computes the dev accuracy and, in its last epoch, prints the
\* misclassified dev sentences from the script's globals num_to_word, sents_dev.)
Evaluate ==
    /\ pc = "eval"
    /\ \E l \in Losses :
        LET e == evaluate(rnn, args.X_dev[1], l)
            loss == e.value
            count == IF Abs(prev_loss - loss) < args.min_change
                     THEN min_change_count + 1 ELSE 0
        IN  /\ evals' = Append(evals, Measured(loss, e.rnn))
            /\ IF Improved(loss, best_loss)
               THEN /\ best_loss' = loss
                    /\ best_acc' = IF args.np THEN "bound" ELSE best_acc
                    /\ rnn' = Copied(e.rnn)
                    /\ bestU' = Len(e.rnn.heap) + 1
                    /\ bestV' = Len(e.rnn.heap) + 2
                    /\ bestW' = Len(e.rnn.heap) + 3
                    /\ best_epoch' = epoch
               ELSE /\ rnn' = e.rnn
                    /\ UNCHANGED <<best_loss, best_acc, bestU, bestV, bestW, best_epoch>>
            /\ min_change_count' = count
            /\ IF Converged(count)
               THEN /\ pc' = "finish"
                    /\ UNCHANGED <<prev_loss, epoch>>
               ELSE /\ prev_loss' = loss
                    /\ epoch' = epoch + 1
                    /\ pc' = "loop"
    /\ epochsRun' = epochsRun + 1
    /\ calls' = calls + (IF args.np THEN 2 ELSE 1) * Len(args.X_dev)
    /\ last' = Call("evaluate", 0, 0, <<0, 1>>)
    /\ UNCHANGED <<trace, exc, ret, args, i, permutation, learning_rate, applied>>

\* after the epoch loop: the closing messages, the restore, the return
Finish ==
    /\ pc = "finish"
    /\ IF args.np /\ best_acc = "unbound"
       THEN \* train_np formats best_acc, which is assigned only on an improvement
            /\ exc' = "UnboundLocalError"
            /\ pc' = "raised"
            /\ UNCHANGED <<rnn, ret>>
       ELSE /\ rnn' = [rnn EXCEPT !.U = bestU, !.V = bestV, !.W = bestW]
            /\ ret' = best_loss
            /\ pc' = "returned"
            /\ UNCHANGED exc
    /\ UNCHANGED <<trace, last, calls, args, epoch, i, permutation, learning_rate,
                   prev_loss, min_change_count, best_loss, best_epoch, best_acc,
                   bestU, bestV, bestW, evals, applied, epochsRun>>

Next ==
    \/ TrainCall
    \/ EpochBegin
    \/ LoopExit
    \/ Predict
    \/ Accumulate
    \/ BatchUpdate
    \/ Remainder
    \/ Evaluate
    \/ Finish

Spec == Init /\ [][Next]_vars

\* the positions of control in a call of train / train_np
Positions ==
    {"idle", "loop", "predict", "acc", "batch", "rest", "eval", "finish", "returned", "raised"}

\* control leaves a position inside the call (every step of Next from such a
\* position changes pc)
Advance == pc \notin {"idle", "returned", "raised"} /\ pc' \in Positions

NextLong ==
    \/ TrainCallLong
    \/ EpochBegin
    \/ LoopExit
    \/ Predict
    \/ Accumulate
    \/ BatchUpdate
    \/ Remainder
    \/ Evaluate
    \/ Finish

\* train is sequential code: the statement at pc is executed, so control does
\* not rest inside the call
SpecLong == Init /\ [][NextLong]_vars /\ WF_pc(Advance)

NextBatch ==
    \/ TrainCallBatch
    \/ EpochBegin
    \/ LoopExit
    \/ Predict
    \/ Accumulate
    \/ BatchUpdate
    \/ Remainder
    \/ Evaluate
    \/ Finish

SpecBatch == Init /\ [][NextBatch]_vars

-----------------------------------------------------------------------------
(* Vocabulary of the properties *)

\* an epoch of train / train_np is in progress
InEpoch == pc \in {"predict", "acc", "batch", "rest", "eval"}

\* the call of train / train_np has started its epoch loop and not failed
Training == pc \in {"loop", "predict", "acc", "batch", "rest", "eval", "finish", "returned"}

\* the smallest loss among the evaluations ev
MinLoss(ev) == CHOOSE m \in {ev[j].loss : j \in DOMAIN ev} : \A j \in DOMAIN ev : m <= ev[j].loss

\* the first evaluation that measured the smallest loss (1 is the initial one,
\* k + 1 the one at the end of epoch k - 1)
BestIndex(ev) ==
    CHOOSE k \in DOMAIN ev :
        /\ ev[k].loss = MinLoss(ev)
        /\ \A j \in 1..(k - 1) : ev[j].loss > ev[k].loss

\* the k-th epoch run (k = 1 is epoch 0) changed the dev loss by less than min_change
SmallChange(k) == Abs(evals[k].loss - evals[k + 1].loss) < args.min_change

\* the values held by the best snapshot bestU, bestV, bestW
Snapshot == [U |-> Val(rnn, bestU), V |-> Val(rnn, bestV), W |-> Val(rnn, bestW)]

\* this step is a call of method op on the object
Called(op) == calls' > calls /\ last'.op = op

\* the products a call added to an accumulator: r0 before the call, r1 after
NewTerms(r0, r1, field) == SubSeq(r1[field], Len(r0[field]) + 1, Len(r1[field]))

-----------------------------------------------------------------------------
(* C1: train stops at the end of the first epoch that completes three        *)
(* consecutive epochs whose dev loss changed by less than min_change; with a *)
(* min_change above every possible change and epochs >= 3 it returns after   *)
(* exactly 3 epochs.                                                         *)
C1_StopsAfterThreeSmallEpochs ==
    /\ (InEpoch /\ epochsRun >= 3) =>
          ~(SmallChange(epochsRun) /\ SmallChange(epochsRun - 1) /\ SmallChange(epochsRun - 2))
    /\ (pc = "returned" /\ args.min_change > MaxLoss /\ args.epochs >= 3) => epochsRun = 3

(* C2: the best snapshot always holds the parameter values at which the best *)
(* loss was measured (it is not changed by later apply_deltas calls), and    *)
(* when train returns the live U, V, W are those values and the returned     *)
(* loss is that loss.                                                        *)
C2_SnapshotIsBest ==
    (Training /\ evals # <<>>) =>
        /\ Snapshot = evals[BestIndex(evals)].params
        /\ pc = "returned" =>
              /\ Params(rnn) = evals[BestIndex(evals)].params
              /\ ret = evals[BestIndex(evals)].loss

(* C3: after every evaluation best_loss is the minimum of the initial loss   *)
(* and the epoch losses so far, best_epoch is the first epoch that reached   *)
(* it (a tie keeps the earlier one), best_loss never increases, and train    *)
(* returns this minimum, which is at most the initial loss.                  *)
C3_BestLossTracking ==
    [][(Training' /\ evals' # <<>>) =>
          /\ best_loss' = MinLoss(evals')
          /\ best_epoch' = (IF BestIndex(evals') = 1 THEN 0 ELSE BestIndex(evals') - 2)
          /\ (Training /\ evals # <<>>) => best_loss' <= best_loss
          /\ (Training /\ evals # <<>> /\ best_loss' # best_loss) =>
                /\ Len(evals') = Len(evals) + 1
                /\ evals'[Len(evals')].loss < best_loss
                /\ best_loss' = evals'[Len(evals')].loss
          /\ pc' = "returned" => (ret' = MinLoss(evals') /\ ret' <= evals'[1].loss)]_vars

\* C3's case: an epoch improved on the initial loss, a later one tied with it
C3_Witness ==
    /\ pc = "returned"
    /\ Len(evals) >= 3
    /\ evals[2].loss < evals[1].loss
    /\ evals[3].loss = evals[2].loss
    /\ best_epoch = 0
    /\ ret = evals[2].loss

(* C4: with batch_size = 1 the weights are updated after each instance; with *)
(* batch_size = len(X) they are updated once per epoch, after all len(X)     *)
(* instances have been accumulated, and not before.                          *)
C4_BatchSizeMeaning ==
    /\ (Training /\ args.batch_size = 1 /\ pc \in {"predict", "rest"}) => Len(applied) = i
    /\ (Training /\ args.batch_size = Len(args.X)) =>
          /\ \A j \in DOMAIN applied : applied[j].seen = Len(args.X)
          /\ pc = "eval" => Len(applied) = 1

\* the updates of one epoch over n instances as C5 states them
Schedule(n, b) ==
    LET due == SelectSeq([j \in 1..n |-> j - 1], LAMBDA q : q % b = 0)
        inLoop == [j \in 1..Len(due) |-> [after |-> due[j], seen |-> due[j] + 1, div |-> b]]
    IN  IF n % b # 0
        THEN Append(inLoop, [after |-> n - 1, seen |-> n, div |-> n % b])
        ELSE inLoop

C6_ApplyDeltasResets ==
    [][Called("apply_deltas") =>
          /\ rnn'.deltaU = <<>> /\ rnn'.deltaV = <<>> /\ rnn'.deltaW = <<>>
          /\ Val(rnn', rnn'.U) = AddScaled(Val(rnn, rnn.U), last'.lr, rnn.deltaU)
          /\ Val(rnn', rnn'.V) = AddScaled(Val(rnn, rnn.V), last'.lr, rnn.deltaV)
          /\ Val(rnn', rnn'.W) = AddScaled(Val(rnn, rnn.W), last'.lr, rnn.deltaW)
          /\ rnn'.U = rnn.U /\ rnn'.V = rnn.V /\ rnn'.W = rnn.W]_vars

\* C6's case: apply_deltas has been called on accumulators that were not zero
C6_Witness ==
    /\ last.op = "apply_deltas"
    /\ Val(rnn, rnn.U) # <<>> /\ Val(rnn, rnn.V) # <<>> /\ Val(rnn, rnn.W) # <<>>
    /\ rnn.deltaU = <<>> /\ rnn.deltaV = <<>> /\ rnn.deltaW = <<>>

\* the product one-step back propagation adds to an accumulator for output
\* position t of a sequence of length n: deltaW from s[t], deltaV from x[t],
\* deltaU from s[t-1] (row n of s, the zero row, when t = 0)
OneStepTerm(field, t, n) ==
    CASE field = "deltaW" ->
            [err |-> [out |-> t, gates |-> <<>>], idx |-> t, row |-> t, div |-> 1]
      [] field = "deltaV" ->
            [err |-> [out |-> t, gates |-> <<t>>], idx |-> t, row |-> t, div |-> 1]
      [] field = "deltaU" ->
            [err |-> [out |-> t, gates |-> <<t>>], idx |-> t - 1,
             row |-> (IF t = 0 THEN n ELSE t - 1), div |-> 1]

\* the one-step products for t = n-1 down to 0
OneStep(field, n) == [j \in 1..n |-> OneStepTerm(field, n - j, n)]

Accumulators == {"deltaU", "deltaV", "deltaW"}

(* C7: on the traces of predict(x), acc_deltas_bptt with steps = 0 adds to   *)
(* deltaU, deltaV, deltaW exactly what acc_deltas adds: for each t one       *)
(* product from s[t], x[t] and s[t-1], and nothing from earlier time steps.  *)
C7_BpttZeroIsOneStep ==
    [][(Called("acc_deltas_bptt") /\ last'.steps = 0) =>
          /\ exc' = "none"
          /\ rnn' = acc_deltas(Enter(rnn), trace.x, trace.y, trace.s).rnn
          /\ \A f \in Accumulators : NewTerms(rnn, rnn', f) = OneStep(f, trace.x)]_vars

\* C7's case: acc_deltas_bptt with steps = 0 has run on a sequence of length >= 2
C7_Witness ==
    /\ last.op = "acc_deltas_bptt"
    /\ last.steps = 0
    /\ last.x >= 2
    /\ Len(rnn.deltaU) >= 2

(* C8: for every sequence of length >= 1, acc_deltas_np does not fail and    *)
(* adds the one-step products of the final time step t = len(x)-1 (deltaU    *)
(* from the zero boundary row when t = 0), the same as acc_deltas_bptt_np    *)
(* with steps = 0.                                                           *)
C8_SingleLabelOneStep ==
    [][Called("acc_deltas_np") =>
          /\ exc' = "none"
          /\ rnn' = acc_deltas_bptt_np(Enter(rnn), trace.x, trace.y, trace.s, 0).rnn
          /\ \A f \in Accumulators :
                NewTerms(rnn, rnn', f) = <<OneStepTerm(f, trace.x - 1, trace.x)>>]_vars

\* the output positions a BPTT method handles on a sequence of length n
Outputs(op, n) == IF op = "acc_deltas_bptt_np" THEN {n - 1} ELSE 0..(n - 1)

\* the numbers of back-steps (gates after the first) of the products in terms
\* that belong to output position t
Depths(terms, t) ==
    {Len(terms[j].err.gates) - 1 : j \in {k \in DOMAIN terms : terms[k].err.out = t}}

(* C9: in acc_deltas_bptt and acc_deltas_bptt_np the unroll at every output  *)
(* position t has exactly min(t, steps) back-steps for the steps the caller  *)
(* passed, no index read into s is below -1, and with steps >= len(x) the    *)
(* unroll from each t reaches position 0.                                    *)
C9_Truncation ==
    [][(Called("acc_deltas_bptt") \/ Called("acc_deltas_bptt_np")) =>
          LET n == trace.x
              newU == NewTerms(rnn, rnn', "deltaU")
              newV == NewTerms(rnn, rnn', "deltaV")
              newW == NewTerms(rnn, rnn', "deltaW")
              outs == Outputs(last'.op, n)
          IN  /\ exc' = "none"
              /\ \A t \in outs :
                    /\ Depths(newU, t) = 0..Min2(t, last'.steps)
                    /\ Depths(newV, t) = 0..Min2(t, last'.steps)
                    /\ Cardinality({k \in DOMAIN newU : newU[k].err.out = t})
                          = Min2(t, last'.steps) + 1
                    /\ Cardinality({k \in DOMAIN newV : newV[k].err.out = t})
                          = Min2(t, last'.steps) + 1
                    /\ Cardinality({k \in DOMAIN newW : newW[k].err.out = t}) = 1
              /\ \A k \in DOMAIN newU :
                    /\ newU[k].err.out \in outs
                    /\ newU[k].idx >= 0 - 1
                    /\ newU[k].idx = newU[k].err.out - Len(newU[k].err.gates)
              /\ \A k \in DOMAIN newV :
                    /\ newV[k].err.out \in outs
                    /\ newV[k].idx >= 0
                    /\ newV[k].idx = newV[k].err.out - Len(newV[k].err.gates) + 1
              /\ last'.steps >= n =>
                    \A t \in outs :
                        /\ \E k \in DOMAIN newV : newV[k].err.out = t /\ newV[k].idx = 0
                        /\ \E k \in DOMAIN newU : newU[k].err.out = t /\ newU[k].idx = 0 - 1]_vars

\* C9's case: acc_deltas_bptt has run with 0 < steps < len(x) - 1, so that the
\* unroll is cut by steps at the last position and by t at the first ones
C9_Witness ==
    /\ last.op = "acc_deltas_bptt"
    /\ last.x = 3
    /\ last.steps = 1
    /\ \E k \in DOMAIN rnn.deltaU : Len(rnn.deltaU[k].err.gates) = 2
    /\ exc = "none"

MethodsAccumulating == {"acc_deltas", "acc_deltas_np", "acc_deltas_bptt", "acc_deltas_bptt_np"}

\* the accumulators of the object
Deltas(r) == <<r.deltaU, r.deltaV, r.deltaW>>

(* C10, as claimed: predict, the acc_deltas methods and the evaluators leave *)
(* U, V, W unchanged (predict and the evaluators the accumulators too), and  *)
(* during training the values of U, V, W change only through apply_deltas.   *)
C10_OnlyApplyDeltas ==
    [][/\ (Called("predict") \/ Called("evaluate")) =>
             (Params(rnn') = Params(rnn) /\ Deltas(rnn') = Deltas(rnn))
       /\ (\E m \in MethodsAccumulating : Called(m)) => Params(rnn') = Params(rnn)
       /\ Params(rnn') # Params(rnn) => Called("apply_deltas")]_vars

(* C10, amended: ... and during training the values of U, V, W change only   *)
(* through apply_deltas and, when train / train_np returns, through the      *)
(* assignment of the best snapshot to U, V, W.                               *)
C10_Frame ==
    [][/\ (Called("predict") \/ Called("evaluate")) =>
             (Params(rnn') = Params(rnn) /\ Deltas(rnn') = Deltas(rnn))
       /\ (\E m \in MethodsAccumulating : Called(m)) => Params(rnn') = Params(rnn)
       /\ Params(rnn') # Params(rnn) =>
             \/ Called("apply_deltas")
             \/ (pc = "finish" /\ pc' = "returned" /\ Params(rnn') = Snapshot)]_vars

\* C10's case: train has returned after epochs that called predict, an
\* accumulation method and the evaluator, and the restore changed U, V, W
C10_Witness ==
    /\ pc = "returned"
    /\ epochsRun >= 2
    /\ Params(rnn) # evals[Len(evals)].params

\* the three most recent epochs each changed the dev loss by less than min_change
LastThreeSmall ==
    /\ epochsRun >= 3
    /\ SmallChange(epochsRun) /\ SmallChange(epochsRun - 1) /\ SmallChange(epochsRun - 2)

\* the epoch loop of train is over
LoopOver == ~args.np /\ pc \in {"finish", "returned"}

\* the state in which train reports that the maximum of epochs was reached
Exhausted == min_change_count <= 2

(* C11: every run of train terminates, after at most `epochs` epochs; it     *)
(* stops before completing `epochs` epochs only if each of the three most    *)
(* recent epochs changed the dev loss by less than min_change (an epoch with *)
(* a change >= min_change resets the counter to 0); when the three most      *)
(* recent epochs were not all small it has run exactly `epochs` epochs and   *)
(* ends as exhausted.                                                        *)
C11_StoppingRule ==
    /\ []((Training /\ ~args.np) => epochsRun <= args.epochs)
    /\ []((LoopOver /\ epochsRun < args.epochs) => LastThreeSmall)
    /\ []((LoopOver /\ ~LastThreeSmall) => (epochsRun = args.epochs /\ Exhausted))
    /\ [][(pc = "eval" /\ pc' # "eval" /\ ~SmallChange(epochsRun)')
             => min_change_count' = 0]_vars
    /\ ((pc = "loop" /\ ~args.np) ~> (pc = "returned"))

\* C11's case: train has returned before completing its epochs, after epochs
\* that each changed the dev loss by less than min_change
C11_Witness ==
    /\ LoopOver
    /\ pc = "returned"
    /\ epochsRun < args.epochs
    /\ LastThreeSmall

\* no epoch measured a dev loss strictly below the initial loss
NoImprovement == \A k \in 2..Len(evals) : evals[k].loss >= evals[1].loss

(* C12: when the epoch loop of train_np is over (the dev set is not empty),  *)
(* train_np restores the best snapshot into U, V, W and returns the best     *)
(* observed loss without raising an error; when no epoch's dev loss was      *)
(* strictly below the initial loss (epochs = 0 included) it returns the      *)
(* initial loss.                                                             *)
C12_TrainNpReturns ==
    [][(args.np /\ pc = "finish" /\ pc' # pc) =>
          /\ pc' = "returned"
          /\ exc' = "none"
          /\ rnn'.U = bestU /\ rnn'.V = bestV /\ rnn'.W = bestW
          /\ ret' = best_loss
          /\ NoImprovement => ret' = evals[1].loss]_vars

\* deltaU, deltaV and deltaW are all zero
NothingPending == rnn.deltaU = <<>> /\ rnn.deltaV = <<>> /\ rnn.deltaW = <<>>

(* C13: in train and train_np, for every len(X) >= 1 and batch_size >= 1,    *)
(* all three accumulators are zero when the dev loss of an epoch is          *)
(* evaluated: the gradient of every instance of the epoch has been applied   *)
(* within the epoch, none is carried into the next epoch or left unapplied   *)
(* when training ends.                                                       *)
C13_NoPendingGradient ==
    /\ pc = "eval" => NothingPending
    /\ (pc = "loop" /\ epochsRun > 0) => NothingPending
    /\ (pc = "returned" /\ epochsRun > 0) => NothingPending

====
